---- MODULE Spec2Model ----
(***************************************************************************)
(* Model of src/libOrsa/orsa_fundamental.cpp: the two entry operations     *)
(* ransac_fundamental and orsa_fundamental, the shared refinement step     *)
(* refine and the error statistics display_stats.                          *)
(*                                                                         *)
(* A 3x3 matrix is represented by an identity tag and by the squared       *)
(* epipolar error it gives to each match that display_stats reads (the     *)
(* quantity e of display_stats, line 49).  Doubles are represented by      *)
(* naturals plus the IEEE value NaN.  display_stats returns square roots;  *)
(* the model keeps the radicands (l2 with in.size(), and linf) and         *)
(* compares them as the square roots compare (sqrt is increasing).         *)
(*                                                                         *)
(* The classes Ransac, Orsa and FundamentalModel are not part of the       *)
(* source file; their behaviour is taken from the specification and is a   *)
(* nondeterministic choice among the outcomes it allows.                   *)
(***************************************************************************)
EXTENDS Integers, Sequences, FiniteSets

VARIABLES
  pc,             \* "call" before the entry operation runs, "done" after it returned
  op,             \* which entry operation ran: "none", "ransac" or "orsa"
  n,              \* vec_matchings.size()
  precision,      \* the caller's precision variable (pixels)
  nbIterMax,      \* the caller's iteration cap
  H,              \* the caller's output matrix (H of ransac_fundamental, F of orsa_fundamental)
  vec_inliers,    \* the caller's output inlier index list
  ret,            \* the value returned by the entry operation (read when pc = "done")
  loc,            \* the callee's locals when it returned: ok, precision, nbIterMax
  eng,            \* what the consensus engine did during the call
  ref,            \* what refine saw and did during the call
  calls           \* the calls made by the entry operation, in order

vars == <<pc, op, n, precision, nbIterMax, H, vec_inliers, ret, loc, eng, ref, calls>>

\* ------------------------------------------------------------------ bounds

MaxN == 8          \* largest number of correspondences
MaxInl == 2        \* largest inlier set an engine returns
MaxErr == 2        \* largest finite squared error of a match under a refit

\* ------------------------------------------------------------------ doubles

\* The IEEE not-a-number produced by 0.0/0 (line 54 with an empty inlier list,
\* or line 49 when a = b = d = 0).
NaN == 0 - 1

ErrVals == (0..MaxErr) \cup {NaN}

\* double addition, l2 += e (line 50)
FAdd(x, y) == IF x = NaN \/ y = NaN THEN NaN ELSE x + y

\* double comparison x < y (line 51): false when either side is NaN
FLess(x, y) == x # NaN /\ y # NaN /\ x < y

\* ------------------------------------------------------------------ matrices

Matrix(id, err) == [id |-> id, err |-> err]

\* A matrix no estimator wrote: the caller's initial content of H / F.
CallerMatrix == Matrix("caller", [i \in {} |-> 0])

\* The local M2(3,3) of refine before ComputeModel fills it (line 82).
FreshMatrix == Matrix("fresh", [i \in {} |-> 0])

Range(s) == {s[i] : i \in 1..Len(s)}

Min(a, b) == IF a < b THEN a ELSE b

RECURSIVE SortedSeq(_)
SortedSeq(S) ==
  IF S = {} THEN <<>>
  ELSE LET m == CHOOSE x \in S : \A y \in S : x <= y
       IN <<m>> \o SortedSeq(S \ {m})

\* ------------------------------------------------------------------ display_stats

Call(fn, size) == [fn |-> fn, size |-> size]

\* The loop of display_stats (lines 43-53) from position i on.
RECURSIVE StatsLoop(_, _, _, _, _)
StatsLoop(in, F, i, l2, linf) ==
  IF i > Len(in) THEN [l2 |-> l2, linf |-> linf]
  ELSE LET e == F.err[in[i]]
       IN StatsLoop(in, F, i + 1, FAdd(l2, e), IF FLess(linf, e) THEN e ELSE linf)

\* display_stats with the maximum taken from the sum: err(sqrt(l2/size), sqrt(l2)).
display_stats_SumAsMax(in, F) ==
  LET s == StatsLoop(in, F, 1, 0, 0)
  IN [l2 |-> s.l2, size |-> Len(in), linf |-> s.l2]

\* display_stats (lines 38-58).  first is sqrt(l2/in.size()), kept as the pair
\* (l2, size); second is sqrt(linf), kept as linf.
display_stats(in, F) ==
  LET s == StatsLoop(in, F, 1, 0, 0)
  IN [l2 |-> s.l2, size |-> Len(in), linf |-> s.linf]

\* sqrt(l2/size) as a double is NaN when l2 is NaN or when size = 0 (0.0/0).
FirstIsNaN(st) == st.l2 = NaN \/ st.size = 0

\* ------------------------------------------------------------------ refine

\* refine without its safety check: the refit is always kept.
RefitAccepted_Always(after, maxBefore) == TRUE

\* The acceptance test of line 87: display_stats(..., M2).first <= maxBefore,
\* with maxBefore = err.second (line 86).  sqrt(l2/size) <= sqrt(linf) iff
\* l2 <= linf * size; a comparison with NaN is false.
RefitAccepted(after, maxBefore) ==
  /\ ~FirstIsNaN(after)
  /\ maxBefore # NaN
  /\ after.l2 <= maxBefore * after.size

\* The outcomes of model->ComputeModel(vec_inliers, &M2) (line 83): failure, or a
\* least-squares refit with some error on each inlier.
ComputeModelOutcomes(in) ==
  {[ok |-> FALSE, M2 |-> FreshMatrix]}
  \cup {[ok |-> TRUE, M2 |-> Matrix("refit", e)] : e \in [Range(in) -> ErrVals]}

\* refine (lines 76-94), given the outcome cm of ComputeModel: the matrix left in
\* *M and the calls made.
refine(in, M, cm) ==
  LET err == display_stats(in, M)
      maxBefore == err.linf
      head == <<Call("refine", Len(in)), Call("display_stats", Len(in)),
                Call("ComputeModel", Len(in))>>
  IN IF cm.ok
     THEN [M |-> IF RefitAccepted(display_stats(in, cm.M2), maxBefore)
                 THEN cm.M2 ELSE M,
           calls |-> head \o <<Call("display_stats", Len(in))>>]
     ELSE [M |-> M, calls |-> head]

\* ------------------------------------------------------------------ estimator

\* FundamentalModel::SizeSample(): the minimal sample of the 7-point solver.
SizeSample == 7

\* Squared errors an engine accepts as inliers under threshold t (pixels).
InlierErrs(t) == 0..Min(t * t, MaxErr)

\* The non-empty inlier index lists an engine can return on size matches:
\* distinct indices of [0, size), in increasing order.
InlierLists(size) ==
  {SortedSeq(S) : S \in {T \in SUBSET (0..(size - 1)) :
                           Cardinality(T) >= 1 /\ Cardinality(T) <= MaxInl}}

Engine(ran, viable, nfa, iters, M, inliers, t) ==
  [ran |-> ran, viable |-> viable, nfa |-> nfa, iters |-> iters,
   M |-> M, inliers |-> inliers, precision |-> t]

\* No engine ran.
NoEngine(M, inliers, t) == Engine(FALSE, FALSE, 0, 0, M, inliers, t)

\* The outcomes of Ransac::run(vec_inliers, precision, nbIterMax, &H, beta, true)
\* (line 119): it executes between 1 and nbIterMax iterations; when some sample
\* gave a model with inliers it fills H and the inlier list with the best one,
\* every inlier being within the threshold; otherwise H is left alone and the
\* inlier list is empty.
RansacRunOutcomes(size, t, itMax, M) ==
  {Engine(TRUE, v, 0, it, M, <<>>, t) : v \in BOOLEAN, it \in 1..itMax}
  \cup UNION {{Engine(TRUE, TRUE, 0, it, Matrix("engine", e), in, t) :
                 e \in [Range(in) -> InlierErrs(t)], it \in 1..itMax} :
              in \in InlierLists(size)}

\* Representatives of the sign of the best log10(NFA) Orsa::run returns.
NFAVals == {0 - 1, 0, 1}

\* The outcomes of Orsa::run(vec_inliers, nbIter, &precision, &F, true)
\* (line 159): a negative return comes with the model, its inlier list and the
\* discovered threshold, no larger than the one supplied; otherwise F and
\* precision are left alone and the inlier list is empty.
OrsaRunOutcomes(size, t, itMax, M) ==
  {Engine(TRUE, FALSE, r, it, M, <<>>, t) :
     r \in {v \in NFAVals : v >= 0}, it \in 1..itMax}
  \cup UNION {{Engine(TRUE, TRUE, r, it, Matrix("engine", e), in, t2) :
                 e \in [Range(in) -> InlierErrs(t2)], it \in 1..itMax,
                 r \in {v \in NFAVals : v < 0}} :
              in \in InlierLists(size), t2 \in 0..t}

\* ------------------------------------------------------------------ entry operations

\* ransac_fundamental asking for one match more than the sample.
RansacOk_Strict(size) == size > SizeSample

\* bool ok of ransac_fundamental (line 113)
RansacOk(size) == size >= SizeSample

\* orsa_fundamental content with exactly the sample size.
OrsaOk_Lax(size) == size >= SizeSample

\* bool ok of orsa_fundamental (line 146)
OrsaOk(size) == size > SizeSample

\* The test of line 159 on the value r returned by Orsa::run.
OrsaRunFailed(r) == r > 0

\* return ok; (line 124)
RansacReturn(ok) == ok

\* return true; (line 165)
OrsaReturn(ok) == TRUE

\* precision is passed by value (lines 108 and 141): what the caller's variable
\* holds after the call, given its value before and the callee's copy at return.
PrecisionAfterCall(before, copy) == before

Locals(ok, t, it) == [ok |-> ok, precision |-> t, nbIterMax |-> it]

Refined(called, M, inliers, cm) ==
  [called |-> called, M |-> M, inliers |-> inliers, cm |-> cm]

NoRefine == Refined(FALSE, FreshMatrix, <<>>, [ok |-> FALSE, M2 |-> FreshMatrix])

\* The state the caller observes when the entry operation o returns.
Finish(o, rv, M, in, l, e, rf, cs) ==
  /\ pc' = "done"
  /\ op' = o
  /\ ret' = rv
  /\ H' = M
  /\ vec_inliers' = in
  /\ precision' = PrecisionAfterCall(precision, l.precision)
  /\ loc' = l
  /\ eng' = e
  /\ ref' = rf
  /\ calls' = cs
  /\ UNCHANGED <<n, nbIterMax>>

\* ransac_fundamental (lines 106-125)
ransac_fundamental ==
  /\ pc = "call"
  /\ LET ok == RansacOk(n)
         built == <<Call("build_model", n)>>
         freed == <<Call("delete", n)>>
     IN IF ~ok
        THEN Finish("ransac", RansacReturn(ok), H, vec_inliers,
                    Locals(ok, precision, nbIterMax),
                    NoEngine(H, vec_inliers, precision), NoRefine,
                    built \o freed)
        ELSE \E r \in RansacRunOutcomes(n, precision, nbIterMax, H) :
             \E cm \in ComputeModelOutcomes(r.inliers) :
               LET q == refine(r.inliers, r.M, cm)
               IN Finish("ransac", RansacReturn(ok), q.M, r.inliers,
                         Locals(ok, precision, r.iters),
                         r, Refined(TRUE, r.M, r.inliers, cm),
                         built \o <<Call("Ransac::run", n)>> \o q.calls \o freed)

\* orsa_fundamental (lines 139-166)
orsa_fundamental ==
  /\ pc = "call"
  /\ LET ok == OrsaOk(n)
         built == <<Call("build_model", n)>>
         freed == <<Call("delete", n)>>
     IN IF ~ok
        THEN Finish("orsa", OrsaReturn(ok), H, vec_inliers,
                    Locals(ok, precision, nbIterMax),
                    NoEngine(H, vec_inliers, precision), NoRefine,
                    built \o freed)
        ELSE \E r \in OrsaRunOutcomes(n, precision, nbIterMax, H) :
               IF OrsaRunFailed(r.nfa)
               THEN Finish("orsa", OrsaReturn(FALSE), r.M, r.inliers,
                           Locals(FALSE, r.precision, nbIterMax),
                           r, NoRefine,
                           built \o <<Call("Orsa::run", n)>> \o freed)
               ELSE \E cm \in ComputeModelOutcomes(r.inliers) :
                      LET q == refine(r.inliers, r.M, cm)
                      IN Finish("orsa", OrsaReturn(ok), q.M, r.inliers,
                                Locals(ok, r.precision, nbIterMax),
                                r, Refined(TRUE, r.M, r.inliers, cm),
                                built \o <<Call("Orsa::run", n)>> \o q.calls
                                  \o freed)

\* ------------------------------------------------------------------ specification

\* The inlier list the caller passes in: empty, or holding an earlier result.
CallerInliers == {<<>>, <<0>>}

\* The precision (pixels) the caller supplies.
PrecisionVals == {1}

\* The iteration cap the caller supplies.
IterCaps == {1}

Init ==
  /\ pc = "call"
  /\ op = "none"
  /\ n \in 0..MaxN
  /\ precision \in PrecisionVals
  /\ nbIterMax \in IterCaps
  /\ H = CallerMatrix
  /\ vec_inliers \in CallerInliers
  /\ ret = FALSE
  /\ loc = Locals(FALSE, precision, nbIterMax)
  /\ eng = NoEngine(H, vec_inliers, precision)
  /\ ref = NoRefine
  /\ calls = <<>>

Next == ransac_fundamental \/ orsa_fundamental

Spec == Init /\ [][Next]_vars

\* ------------------------------------------------------------------ properties

Done(o) == pc = "done" /\ op = o

\* The entry operation called fn.
Called(fn) == \E i \in DOMAIN calls : calls[i].fn = fn

EstimationCalls == {"Ransac::run", "Orsa::run", "refine", "ComputeModel", "display_stats"}

\* The square of the threshold in force when the operation returned.
Threshold2 == loc.precision * loc.precision

RECURSIVE SumErr(_, _)
SumErr(S, M) ==
  IF S = {} THEN 0
  ELSE LET i == CHOOSE x \in S : TRUE IN M.err[i] + SumErr(S \ {i}, M)

\* The refit M2 has a defined RMS error on the inliers I and it is at most the
\* largest error of I under M.
RmsWithinMax(I, M2, M) ==
  /\ I # {}
  /\ \A i \in I : M2.err[i] # NaN
  /\ \E j \in I : SumErr(I, M2) <= M.err[j] * Cardinality(I)

\* C1: orsa_fundamental returns false whenever the number of correspondences
\* is at most the minimal sample size.
C1_OrsaInsufficientReturnsFalse ==
  (Done("orsa") /\ n <= SizeSample) => ret = FALSE

\* C2: with more correspondences than the minimal sample and a best log10(NFA)
\* >= 0, orsa_fundamental returns false and the returned inlier list is empty.
C2_OrsaNotMeaningfulReturnsFalse ==
  (Done("orsa") /\ n > SizeSample /\ Called("Orsa::run") /\ eng.nfa >= 0)
    => (ret = FALSE /\ vec_inliers = <<>>)

C4_InsufficientDataFrame ==
  [][(/\ pc = "call"
      /\ \/ op' = "ransac" /\ n < SizeSample
         \/ op' = "orsa" /\ n <= SizeSample)
       => (/\ H' = H
           /\ vec_inliers' = vec_inliers
           /\ \A i \in DOMAIN calls' : calls'[i].fn \notin EstimationCalls
           /\ eng'.iters = 0)]_vars

C4_Witness ==
  Done("orsa") /\ n = SizeSample /\ vec_inliers = <<0>> /\ H = CallerMatrix
    /\ ~Called("Orsa::run")

\* C5: refine leaves the refit M2 in the output only if ComputeModel succeeded
\* and the RMS error of the inliers under M2 is at most their maximum error
\* under the model M it was given; in every other case the output is M, and the
\* inlier list is the one it was given in all cases.
C5_RefineKeepsOrReplaces ==
  (pc = "done" /\ ref.called) =>
    LET acc == ref.cm.ok /\ RmsWithinMax(Range(ref.inliers), ref.cm.M2, ref.M)
    IN /\ (H = ref.cm.M2) => acc
       /\ ~acc => H = ref.M
       /\ vec_inliers = ref.inliers

C5_Witness ==
  pc = "done" /\ ref.called /\ ref.cm.ok /\ ref.inliers # <<>> /\ H = ref.M
    /\ \A i \in Range(ref.inliers) : ref.cm.M2.err[i] # NaN

\* C6 (as stated): when an entry operation returns a model and inlier list,
\* every reported inlier's error under the reported model is at most the
\* active threshold, also after an accepted refinement.
C6_EveryInlierWithinThreshold ==
  (pc = "done" /\ H.id # "caller") =>
    \A i \in Range(vec_inliers) : H.err[i] # NaN /\ H.err[i] <= Threshold2

\* C6 (amended): when an entry operation returns a model and inlier list, every
\* reported inlier's error under the reported model is at most the active
\* threshold if the refinement was not applied; after an accepted refinement
\* the RMS error of the reported inliers under the reported model is at most
\* the active threshold.
C6_InliersOrRmsWithinThreshold ==
  (pc = "done" /\ H.id # "caller") =>
    IF H.id = "refit"
    THEN /\ \A i \in Range(vec_inliers) : H.err[i] # NaN
         /\ SumErr(Range(vec_inliers), H) <= Threshold2 * Len(vec_inliers)
    ELSE \A i \in Range(vec_inliers) : H.err[i] # NaN /\ H.err[i] <= Threshold2

C6_Witness ==
  pc = "done" /\ H.id = "refit"
    /\ \E i \in Range(vec_inliers) : H.err[i] > Threshold2

\* C7: after a meaningful a-contrario estimation the caller's precision holds
\* the threshold discovered by the engine.
C7_PrecisionWrittenBack ==
  (Done("orsa") /\ Called("Orsa::run") /\ eng.nfa < 0) => precision = eng.precision

\* C8: ransac_fundamental returns true iff some drawn sample produced a model.
C8_RansacReturnsViable ==
  Done("ransac") => (ret = eng.viable)

\* C9: orsa_fundamental calls refine after the engine run iff the best
\* log10(NFA) is strictly negative; for a value >= 0 the model is not altered.
C9_RefineIffMeaningful ==
  (Done("orsa") /\ Called("Orsa::run")) =>
    /\ Called("refine") <=> (eng.nfa < 0)
    /\ (eng.nfa >= 0) => H = CallerMatrix

\* C10: display_stats is only ever invoked with a non-empty inlier list.
C10_StatsOnNonEmpty ==
  \A i \in DOMAIN calls : calls[i].fn = "display_stats" => calls[i].size > 0

====
